---------------------------- MODULE Spec2Model ----------------------------
(***************************************************************************)
(* A model of update_profile.py: the paginated fetch of an account's       *)
(* repositories (get_top_starred_repos), the marker-delimited rewrite of   *)
(* README.md / profile.md (update_readme) and the script's entry point.    *)
(*                                                                         *)
(* A repository entry is a record [name, html_url, login, stars]; name and *)
(* html_url are naturals with 0 standing for the empty / missing string,   *)
(* login is a string ("" for a missing login) and stars is a natural or    *)
(* NoCount for an entry without the stargazers_count key.                  *)
(*                                                                         *)
(* A document is a sequence of tokens: begin markers, end markers, link    *)
(* cards (text the card part of the pattern matches), newlines and other   *)
(* text.                                                                   *)
(***************************************************************************)
EXTENDS Integers, Sequences, FiniteSets, TLC

VARIABLES
    pc,         \* position of the script: see the actions
    token,      \* GITHUB_TOKEN is set
    envOwner,   \* REPO_OWNER ("" when unset)
    username,   \* the username argument / resolved account ("" for none)
    limit,      \* the limit argument of get_top_starred_repos
    page,       \* the page number of the next request
    repos,      \* the entries accumulated by the paging loop
    requested,  \* history: the page numbers requested, in order
    responses,  \* history: the response to each request
    ranked,     \* the list get_top_starred_repos returned
    files,      \* the file system: README.md and profile.md
    before,     \* history: the file system when update_readme was last called
    ret,        \* the value update_readme last returned
    targets,    \* history: the target_file of each update_readme call
    io,         \* what happened to the write of the last update_readme call
    calls,      \* the number of update_readme calls made
    exitCode    \* the exit status of the process (-1 while it runs)

vars == <<pc, token, envOwner, username, limit, page, repos, requested,
          responses, ranked, files, before, ret, targets, io, calls, exitCode>>

fetchVars == <<page, repos, requested, responses>>
patchVars == <<files, before, ret, targets, io, calls>>

---------------------------------------------------------------------------
(* Bounds of the model *)

MaxPages == 2       \* the account's listing fits in MaxPages pages
MaxShort == 1       \* entries of a short (last) page drawn entry by entry
MaxStars == 1       \* star counts are 0..MaxStars
MaxLimit == 2       \* limit arguments are 0..MaxLimit
MaxRepos == 2       \* ranked lists handed to update_readme have 0..MaxRepos entries
MaxDocSlot == 2     \* documents use the markers of the slots 1..MaxDocSlot
MaxBlocks == 2      \* documents are made of at most MaxBlocks blocks

(* Program constants *)

per_page == 100

NoCount == -1       \* an entry without the 'stargazers_count' key

StarVals == (0..MaxStars) \cup {NoCount}

---------------------------------------------------------------------------
(* Sequences *)

Take(s, n) == SubSeq(s, 1, IF n < Len(s) THEN n ELSE Len(s))

Drop(s, n) == SubSeq(s, n + 1, Len(s))

SeqsUpTo(S, n) == UNION {[1..k -> S] : k \in 0..n}

---------------------------------------------------------------------------
(* get_top_starred_repos *)

Entry(n, login, s) == [name |-> n, html_url |-> n, login |-> login, stars |-> s]

\* x.get('stargazers_count', 0)
StarKey(x) == IF x.stars = NoCount THEN 0 ELSE x.stars

\* The largest sort key of s (0 for the empty list).
MaxKey(s) ==
    IF s = <<>> THEN 0
    ELSE CHOOSE k \in {StarKey(s[i]) : i \in 1..Len(s)} :
             \A i \in 1..Len(s) : StarKey(s[i]) <= k

\* The entries of s whose key is k, then those with the keys below k in
\* descending key order; entries with one key keep the order they have in s.
RECURSIVE FromKey(_, _)
FromKey(s, k) ==
    IF k < 0 THEN <<>>
    ELSE SelectSeq(s, LAMBDA x : StarKey(x) = k) \o FromKey(s, k - 1)

\* The entries of s whose key is k, then those with the keys above k in
\* ascending key order.
RECURSIVE UpFromKey(_, _, _)
UpFromKey(s, k, top) ==
    IF k > top THEN <<>>
    ELSE SelectSeq(s, LAMBDA x : StarKey(x) = k) \o UpFromKey(s, k + 1, top)

Reverse(s) == [i \in 1..Len(s) |-> s[Len(s) + 1 - i]]

\* repos.sort(key=...) followed by repos.reverse(): descending, but entries
\* with equal keys end in the reverse of their order.
SortThenReverse(s) == Reverse(UpFromKey(s, 0, MaxKey(s)))

\* repos.sort(key=lambda x: x.get('stargazers_count', 0), reverse=True):
\* list.sort is stable, also with reverse=True.
SortByStars(s) == FromKey(s, MaxKey(s))

\* repos.sort(...); return repos[:limit]
RankRepos(s, lim) == Take(SortByStars(s), lim)

Owner == "alice"    \* the login of the account whose repositories are listed

\* A page of n entries that all carry the star value s; base entries came
\* on the pages before it.
UniformPage(base, n, s) == [i \in 1..n |-> Entry(base + i, Owner, s)]

\* A short page given by the star values of its entries.
ShortPage(base, stars) ==
    [i \in 1..Len(stars) |-> Entry(base + i, Owner, stars[i])]

\* What the API may answer to the request of page p: a failure, or a page of
\* at most per_page entries (the request says per_page=100), a full one only
\* while the listing goes on.
Responses(p, base) ==
    {[status |-> 500, items |-> <<>>]}
    \cup {[status |-> 200, items |-> ShortPage(base, st)] :
              st \in SeqsUpTo(StarVals, MaxShort)}
    \cup {[status |-> 200, items |-> UniformPage(base, per_page - 1, s)] :
              s \in StarVals}
    \cup {[status |-> 200, items |-> UniformPage(base, per_page, s)] :
              s \in IF p < MaxPages THEN StarVals ELSE {}}

\* lines 25-30: the endpoint, or ValueError without username and token
BeginFetch ==
    /\ pc = "call"
    /\ pc' = IF username = "" /\ ~token THEN "raised" ELSE "fetch"
    /\ UNCHANGED <<token, envOwner, username, limit, fetchVars, ranked,
                   patchVars, exitCode>>

\* A page that never ends the loop.
LastPageNever(items) == FALSE

\* if len(page_repos) < per_page: break
LastPage(items) == Len(items) < per_page

\* lines 45-55: a page that arrived
TakePage(r) ==
    IF r.items = <<>>
    THEN /\ pc' = "rank"
         /\ UNCHANGED <<repos, page>>
    ELSE /\ repos' = repos \o r.items
         /\ IF LastPage(r.items)
            THEN pc' = "rank" /\ UNCHANGED page
            ELSE pc' = "fetch" /\ page' = page + 1

\* A failed request raises (response.raise_for_status()).
PageStepRaising(r) ==
    IF r.status # 200
    THEN /\ pc' = "raised"
         /\ UNCHANGED <<repos, page>>
    ELSE TakePage(r)

\* lines 41-55: what the loop does with the response
PageStep(r) ==
    IF r.status # 200
    THEN /\ pc' = "rank"
         /\ UNCHANGED <<repos, page>>
    ELSE TakePage(r)

\* lines 37-55: one iteration of the paging loop
FetchPage ==
    /\ pc = "fetch"
    /\ page <= MaxPages
    /\ \E r \in Responses(page, Len(repos)) :
        /\ requested' = Append(requested, page)
        /\ responses' = Append(responses, r)
        /\ PageStep(r)
    /\ UNCHANGED <<token, envOwner, username, limit, ranked, patchVars,
                   exitCode>>

\* lines 57-59: sort and truncate
Rank ==
    /\ pc = "rank"
    /\ ranked' = RankRepos(repos, limit)
    /\ pc' = "fetched"
    /\ UNCHANGED <<token, envOwner, username, limit, fetchVars, patchVars,
                   exitCode>>

---------------------------------------------------------------------------
(* Documents *)

Tok(k, i, u, n, l) == [k |-> k, i |-> i, user |-> u, repo |-> n, url |-> l]

Start(i) == Tok("start", i, "", 0, 0)     \* <!-- REPO_{i}_START -->
End(i)   == Tok("end", i, "", 0, 0)       \* <!-- REPO_{i}_END -->
NL       == Tok("nl", 0, "", 0, 0)        \* a line break
Text     == Tok("text", 0, "", 0, 0)      \* text without marker or card

\* line 111-115: [![name](...?username={username}&repo={name}...)]({url})
Card(u, n, l) == Tok("card", 0, u, n, l)

\* The card a hand-written document holds: [![old](url)](old-url)
OldCard == Card("octocat", 0, 0)

IsCard(t) == t.k = "card"
IsMarker(t) == t.k \in {"start", "end"}

NoFile == [exists |-> FALSE, text |-> <<>>]
File(text) == [exists |-> TRUE, text |-> text]

Min(S) == CHOOSE x \in S : \A y \in S : x <= y

\* line 120: where the pattern of slot i matches first in d, <<p, q>> from its
\* begin marker to its end marker, <<0, 0>> if nowhere. The match starts at
\* the first begin marker that a card and then an end marker follow; the two
\* [\s\S]*? are lazy, so it takes the first card after the marker and ends
\* at the first end marker after that card.
FirstMatch(d, i) ==
    LET n == Len(d)
        cardsAfter(p) == {c \in p + 1..n : IsCard(d[c])}
        endsAfter(c) == {q \in c + 1..n : d[q] = End(i)}
        starts == {p \in 1..n : /\ d[p] = Start(i)
                                /\ \E c \in cardsAfter(p) : endsAfter(c) # {}}
    IN  IF starts = {} THEN <<0, 0>>
        ELSE LET p == Min(starts)
                 c == Min(cardsAfter(p))
             IN  <<p, Min(endsAfter(c))>>

\* A replacement that leaves the groups out: \n{card}\n
ReplacementNoMarkers(i, card) == <<NL, card, NL>>

\* line 121: \1\n{card}\n\2
Replacement(i, card) == <<Start(i), NL, card, NL, End(i)>>

\* A substitution that puts the card in front of what the slot holds
\* instead of in its place.
RECURSIVE SubKeepsOld(_, _, _)
SubKeepsOld(d, i, card) ==
    LET m == FirstMatch(d, i)
    IN  IF m = <<0, 0>> THEN d
        ELSE SubSeq(d, 1, m[1] - 1) \o <<Start(i), NL, card, NL>>
             \o SubSeq(d, m[1] + 1, m[2]) \o SubKeepsOld(Drop(d, m[2]), i, card)

\* line 122: re.sub(pattern, replacement, content) replaces every match, each
\* searched for after the end of the one before.
RECURSIVE Sub(_, _, _)
Sub(d, i, card) ==
    LET m == FirstMatch(d, i)
    IN  IF m = <<0, 0>> THEN d
        ELSE SubSeq(d, 1, m[1] - 1) \o Replacement(i, card)
             \o Sub(Drop(d, m[2]), i, card)

---------------------------------------------------------------------------
(* update_readme *)

NumSlotsOneMore == 6 + 1    \* repos[:7]

NumSlots == 6               \* repos[:6]

AbsentLogin == "(absent)"   \* an entry without owner or login

\* line 88: repo.get('owner', {}).get('login', 'YOUR_USERNAME')
LoginOf(repo) ==
    IF repo.login = AbsentLogin THEN "YOUR_USERNAME" ELSE repo.login

\* line 89: not username or username == 'YOUR_USERNAME'
InvalidUser(u) == u = "" \/ u = "YOUR_USERNAME"

\* line 102: not repo_name or not repo_url
Unusable(repo) == repo.name = 0 \/ repo.html_url = 0

\* line 75: '<!-- REPO_1_START -->' in test_content
HasMarkers(text) == \E p \in 1..Len(text) : text[p] = Start(1)

\* lines 69-81: the first of README.md and profile.md that exists and holds
\* the marker, "" if neither does
TargetFile(fs) ==
    IF fs.readme.exists /\ HasMarkers(fs.readme.text) THEN "readme"
    ELSE IF fs.profile.exists /\ HasMarkers(fs.profile.text) THEN "profile"
    ELSE ""

\* A loop that ends at the first repository without name or URL (break for
\* continue).
RECURSIVE PatchSlotsStopAtBad(_, _, _, _)
PatchSlotsStopAtBad(st, rs, i, user) ==
    IF i > Len(rs) THEN st
    ELSE IF Unusable(rs[i]) THEN st
    ELSE LET card == Card(user, rs[i].name, rs[i].html_url)
             new == Sub(st.content, i, card)
         IN  PatchSlotsStopAtBad(IF new # st.content
                                 THEN [content |-> new, updated |-> TRUE]
                                 ELSE st,
                                 rs, i + 1, user)

\* A loop that builds each card with the owner login of its own repository.
RECURSIVE PatchSlotsOwnLogin(_, _, _, _)
PatchSlotsOwnLogin(st, rs, i, user) ==
    IF i > Len(rs) THEN st
    ELSE IF Unusable(rs[i]) THEN PatchSlotsOwnLogin(st, rs, i + 1, user)
    ELSE LET card == Card(LoginOf(rs[i]), rs[i].name, rs[i].html_url)
             new == Sub(st.content, i, card)
         IN  PatchSlotsOwnLogin(IF new # st.content
                                THEN [content |-> new, updated |-> TRUE]
                                ELSE st,
                                rs, i + 1, user)

\* lines 98-129: the loop over repos[:6] from position i on; st is
\* [content, updated]
RECURSIVE PatchSlots(_, _, _, _)
PatchSlots(st, rs, i, user) ==
    IF i > Len(rs) THEN st
    ELSE IF Unusable(rs[i]) THEN PatchSlots(st, rs, i + 1, user)
    ELSE LET card == Card(user, rs[i].name, rs[i].html_url)
             new == Sub(st.content, i, card)
         IN  PatchSlots(IF new # st.content
                        THEN [content |-> new, updated |-> TRUE]
                        ELSE st,
                        rs, i + 1, user)

\* lines 87-129: the text update_readme computes from content, and whether
\* any slot changed it
Patched(content, rs) ==
    PatchSlots([content |-> content, updated |-> FALSE],
               Take(rs, NumSlots), 1, LoginOf(rs[1]))

\* lines 62-143: update_readme(ranked, 'README.md'); w is what the write of
\* the target file does if it comes to it: "written", "unopened" (open
\* fails, the file stays) or "truncated" (open empties the file and the
\* write fails)
UpdateReadme(w) ==
    /\ pc = "fetched"
    /\ pc' = "updated"
    /\ calls' = calls + 1
    /\ before' = files
    /\ IF ranked = <<>>
       THEN /\ ret' = FALSE
            /\ targets' = Append(targets, "")
            /\ io' = "none"
            /\ UNCHANGED files
       ELSE LET t == TargetFile(files)
            IN  /\ targets' = Append(targets, t)
                /\ IF t = "" \/ InvalidUser(LoginOf(ranked[1]))
                   THEN /\ ret' = FALSE
                        /\ io' = "none"
                        /\ UNCHANGED files
                   ELSE LET res == Patched(files[t].text, ranked)
                        IN  IF ~res.updated
                            THEN /\ ret' = FALSE
                                 /\ io' = "none"
                                 /\ UNCHANGED files
                            ELSE /\ io' = w
                                 /\ ret' = (w = "written")
                                 /\ files' =
                                      [files EXCEPT ![t].text =
                                          IF w = "written" THEN res.content
                                          ELSE IF w = "truncated" THEN <<>>
                                          ELSE @]
    /\ UNCHANGED <<token, envOwner, username, limit, fetchVars, ranked,
                   exitCode>>

InitFetch ==
    /\ pc = "call"
    /\ username \in {"", Owner}
    /\ token \in IF username = "" THEN BOOLEAN ELSE {FALSE}
    /\ envOwner = ""
    /\ limit \in 0..MaxLimit
    /\ page = 1
    /\ repos = <<>>
    /\ requested = <<>>
    /\ responses = <<>>
    /\ ranked = <<>>
    /\ files = [readme |-> NoFile, profile |-> NoFile]
    /\ before = files
    /\ ret = FALSE
    /\ targets = <<>>
    /\ io = "none"
    /\ calls = 0
    /\ exitCode = -1

NextFetch == BeginFetch \/ FetchPage \/ Rank

SpecFetch == InitFetch /\ [][NextFetch]_vars

\* The paging loop is sequential code: each step that can run does run.
FairSpecFetch == SpecFetch /\ WF_vars(NextFetch)

---------------------------------------------------------------------------
(* update_readme applied, and applied again, to bounded documents and lists *)

\* The pieces documents are made of: text, a lone marker, a marker pair
\* around a card.
Blocks ==
    {<<Text>>}
    \cup UNION {{<<Start(i)>>, <<End(i)>>, <<Start(i), OldCard, End(i)>>} :
                i \in 1..MaxDocSlot}

RECURSIVE Flatten(_)
Flatten(bs) == IF bs = <<>> THEN <<>> ELSE Head(bs) \o Flatten(Tail(bs))

Docs == {Flatten(bs) : bs \in SeqsUpTo(Blocks, MaxBlocks)}

\* The i-th repository of a ranked list: its own name and URL, and an owner
\* login of its own.
Repo(i) == [name |-> i, html_url |-> 10 + i,
            login |-> IF i = 1 THEN Owner ELSE "bob", stars |-> 0]

\* The same without a name, without a URL and, for the first, without a
\* login or with an empty one.
Variants(i) ==
    {Repo(i), [Repo(i) EXCEPT !.name = 0], [Repo(i) EXCEPT !.html_url = 0]}
    \cup IF i = 1 THEN {[Repo(i) EXCEPT !.login = AbsentLogin],
                        [Repo(i) EXCEPT !.login = ""]}
         ELSE {}

\* The list of n repositories whose k-th entry is v.
ListWith(n, k, v) == [j \in 1..n |-> IF j = k THEN v ELSE Repo(j)]

\* A list longer than the six slots, and a document with the slots 1, 6
\* and 7.
LongList == ListWith(NumSlots + 1, 0, Repo(1))

WideDoc ==
    <<Start(1), OldCard, End(1), Start(NumSlots), OldCard, End(NumSlots),
      Start(NumSlots + 1), OldCard, End(NumSlots + 1)>>

\* A profile page as it is written by hand: text around two slots with
\* cards.
TypicalDoc ==
    <<Text, Start(1), OldCard, End(1), Text, Start(2), OldCard, End(2), Text>>

\* A page whose second slot has its markers but no card yet.
HalfFilledDoc == <<Start(1), OldCard, End(1), Start(2), End(2)>>

\* A page whose second slot was put around the first.
NestedDoc == <<Start(2), Start(1), OldCard, End(1), End(2)>>

ExampleDocs == {WideDoc, TypicalDoc, HalfFilledDoc, NestedDoc}

\* Ranked lists with at most one such entry.
RepoLists ==
    {LongList}
    \cup UNION {UNION {{ListWith(n, k, v) : v \in Variants(k)} : k \in 0..n} :
                n \in 0..MaxRepos}

InitPatch ==
    /\ pc = "fetched"
    /\ token = FALSE
    /\ envOwner = ""
    /\ username = Owner
    /\ limit = NumSlots
    /\ page = 1
    /\ repos = <<>>
    /\ requested = <<>>
    /\ responses = <<>>
    /\ ranked \in RepoLists
    /\ files \in [readme : {NoFile} \cup {File(d) : d \in Docs \cup ExampleDocs},
                  profile : {NoFile, File(<<Start(1), OldCard, End(1)>>)}]
    /\ before = files
    /\ ret = FALSE
    /\ targets = <<>>
    /\ io = "none"
    /\ calls = 0
    /\ exitCode = -1

\* update_readme with a file system that takes the write
UpdateReadmeOk == UpdateReadme("written")

\* the same call a second time
CallAgain ==
    /\ pc = "updated"
    /\ calls = 1
    /\ pc' = "fetched"
    /\ UNCHANGED <<token, envOwner, username, limit, fetchVars, ranked,
                   patchVars, exitCode>>

NextPatch == UpdateReadmeOk \/ CallAgain

SpecPatch == InitPatch /\ [][NextPatch]_vars

---------------------------------------------------------------------------
(* The script: lines 163-196 *)

TopLimit == 6       \* get_top_starred_repos(username=username, limit=6)

\* lines 146-160: get_username() returns '' without a token, else the login
\* of GET /user, '' if the request fails or the answer has no login
UserNames == IF token THEN {Owner, ""} ELSE {""}

\* lines 170-174: os.getenv('REPO_OWNER') or get_username(); exit 1 if empty
ResolveUser ==
    /\ pc = "start"
    /\ \E u \in IF envOwner # "" THEN {envOwner} ELSE UserNames :
        /\ username' = u
        /\ IF u = ""
           THEN pc' = "exit" /\ exitCode' = 1
           ELSE pc' = "call" /\ UNCHANGED exitCode
    /\ UNCHANGED <<token, envOwner, limit, fetchVars, ranked, patchVars>>

\* line 194: update_readme(repos, 'README.md'), whatever the write does
UpdateReadmeAny == \E w \in {"written", "unopened", "truncated"} : UpdateReadme(w)

\* sys.exit(0) whatever update_readme returned
ExitZero ==
    /\ pc = "updated"
    /\ pc' = "exit"
    /\ exitCode' = 0
    /\ UNCHANGED <<token, envOwner, username, limit, fetchVars, ranked,
                   patchVars>>

\* line 196: sys.exit(0 if success else 1)
Exit ==
    /\ pc = "updated"
    /\ pc' = "exit"
    /\ exitCode' = IF ret THEN 0 ELSE 1
    /\ UNCHANGED <<token, envOwner, username, limit, fetchVars, ranked,
                   patchVars>>

\* The documents the script is run on: no file, a file without markers, a
\* marker pair without a card, two slots with cards.
MainDocs ==
    {<<Text>>, <<Start(1), Text, End(1)>>,
     <<Text, Start(1), OldCard, End(1), Text, Start(2), OldCard, End(2)>>}

Init ==
    /\ pc = "start"
    /\ token \in BOOLEAN
    /\ envOwner \in {"", Owner}
    /\ username = ""
    /\ limit = TopLimit
    /\ page = 1
    /\ repos = <<>>
    /\ requested = <<>>
    /\ responses = <<>>
    /\ ranked = <<>>
    /\ files \in [readme : {NoFile} \cup {File(d) : d \in MainDocs},
                  profile : {NoFile, File(<<Start(1), OldCard, End(1)>>)}]
    /\ before = files
    /\ ret = FALSE
    /\ targets = <<>>
    /\ io = "none"
    /\ calls = 0
    /\ exitCode = -1

Next == ResolveUser \/ BeginFetch \/ FetchPage \/ Rank \/ UpdateReadmeAny \/ Exit

Spec == Init /\ [][Next]_vars

---------------------------------------------------------------------------
(* Claims about get_top_starred_repos *)

Range(s) == {s[i] : i \in 1..Len(s)}

\* What the API delivered: the entries of the first n responses, in order.
RECURSIVE Delivered(_, _)
Delivered(rs, n) ==
    IF n = 0 THEN <<>>
    ELSE Delivered(rs, n - 1) \o
         (IF rs[n].status = 200 THEN rs[n].items ELSE <<>>)

\* The place of entry e in the API order.
PlaceOf(e) ==
    LET all == Delivered(responses, Len(responses))
    IN  CHOOSE i \in 1..Len(all) : all[i] = e

\* C1: the list get_top_starred_repos returns has at most limit entries, all
\* of them fetched entries, is sorted by star count non-increasing (a missing
\* count is 0), and entries with equal star counts are in API order.
RankedSortedStable ==
    pc = "fetched" =>
        /\ Len(ranked) <= limit
        /\ Range(ranked) \subseteq Range(Delivered(responses, Len(responses)))
        /\ \A i \in 1..Len(ranked) - 1 :
               LET a == IF ranked[i].stars = NoCount THEN 0 ELSE ranked[i].stars
                   b == IF ranked[i + 1].stars = NoCount THEN 0
                        ELSE ranked[i + 1].stars
               IN  /\ a >= b
                   /\ a = b => PlaceOf(ranked[i]) < PlaceOf(ranked[i + 1])

\* A fetch of more entries than the limit: the best entry did not come first
\* in API order, and the second place went to the first of the entries
\* without a count.
RankedSortedStableWitness ==
    /\ pc = "fetched"
    /\ Len(repos) > limit
    /\ Len(ranked) = 2
    /\ ranked[1].stars = 1
    /\ PlaceOf(ranked[1]) > 1
    /\ ranked[2].stars = NoCount
    /\ PlaceOf(ranked[2]) = 1

\* C2: a non-200 response is the last request of the fetch, which does not
\* raise and returns the ranking of exactly the entries of the pages before.
ErrorStopsPaging ==
    \A k \in 1..Len(responses) :
        responses[k].status # 200 =>
            /\ k = Len(responses)
            /\ pc \in {"rank", "fetched"}
            /\ repos = Delivered(responses, k - 1)
            /\ pc = "fetched" =>
                   ranked = RankRepos(Delivered(responses, k - 1), limit)

\* Page 2 failed after a full page 1, and the fetch returned entries.
ErrorStopsPagingWitness ==
    /\ pc = "fetched"
    /\ Len(responses) = 2
    /\ responses[2].status = 500
    /\ Len(ranked) = 2
    /\ Len(repos) = per_page

\* The pages 1, 2, 3, ... are requested in this order; every page before the
\* last was a full page of a successful response; the loop goes on after a
\* full page and stops at the first empty or short one.
PagingSafety ==
    /\ Len(responses) = Len(requested)
    /\ \A n \in 1..Len(requested) : requested[n] = n
    /\ \A n \in 1..Len(responses) :
           LET r == responses[n]
           IN  /\ n < Len(responses) =>
                      r.status = 200 /\ Len(r.items) = per_page
               /\ (r.status = 200 /\ Len(r.items) < per_page) =>
                      n = Len(responses) /\ pc \in {"rank", "fetched"}
               /\ (r.status = 200 /\ Len(r.items) = per_page) =>
                      n < Len(responses) \/ (pc = "fetch" /\ page = n + 1)

\* The fetch ended with a successful short page that holds entries.
EndedOnShortPage ==
    /\ pc = "fetched"
    /\ responses # <<>>
    /\ responses[Len(responses)].status = 200
    /\ responses[Len(responses)].items # <<>>

\* C3 as stated: the paging order, and every entry of a short final page is
\* in the list the fetch returns.
PagingAsClaimed ==
    /\ PagingSafety
    /\ EndedOnShortPage =>
           Range(responses[Len(responses)].items) \subseteq Range(ranked)

\* C3, amended: the paging order; the entries of a short final page are among
\* the entries that are ranked (the fetch returns the ranking of every entry
\* of every page, which the limit may cut); and the loop terminates.
PagingOrder ==
    /\ [](PagingSafety)
    /\ [](EndedOnShortPage =>
              /\ repos = Delivered(responses, Len(responses))
              /\ ranked = Take(SortByStars(
                              Delivered(responses, Len(responses))), limit))
    /\ (pc = "fetch") ~> (pc = "fetched")

\* A fetch of two pages that ended on a short page, one entry of which made
\* it into the result and one did not.
PagingOrderWitness ==
    /\ EndedOnShortPage
    /\ requested = <<1, 2>>
    /\ \E e \in Range(responses[2].items) : e \in Range(ranked)
    /\ \E e \in Range(responses[2].items) : e \notin Range(ranked)

---------------------------------------------------------------------------
(* Claims about update_readme *)

\* An update_readme call has just returned.
Returned == pc = "updated"

\* The file the last call selected ("" if none), and its text before and
\* after the call.
LastTarget == targets[Len(targets)]
OldText == before[LastTarget].text
NewText == files[LastTarget].text

\* The last call got as far as the loop over the slots.
ReachedSlots ==
    /\ Returned
    /\ ranked # <<>>
    /\ LastTarget # ""
    /\ LoginOf(ranked[1]) \notin {"", "YOUR_USERNAME"}

\* The slots the loop visits: 1..min(6, length of the ranked list).
Visited == 1..(IF Len(ranked) < 6 THEN Len(ranked) ELSE 6)

\* No marker lies between a begin marker and a later end marker of the same
\* slot: the marker pairs of d are distinct and do not overlap.
NoOverlap(d) ==
    \A p \in 1..Len(d), q \in 1..Len(d) :
        (p < q /\ d[p].k = "start" /\ d[q].k = "end" /\ d[p].i = d[q].i) =>
            \A r \in p + 1..q - 1 : d[r].k \notin {"start", "end"}

HasPair(d, i) ==
    \E p \in 1..Len(d), q \in 1..Len(d) :
        p < q /\ d[p] = Start(i) /\ d[q] = End(i)

Inner(d, i) ==
    IF ~HasPair(d, i) THEN <<>>
    ELSE LET p == Min({x \in 1..Len(d) :
                          d[x] = Start(i) /\ \E y \in x + 1..Len(d) : d[y] = End(i)})
             q == Min({y \in p + 1..Len(d) : d[y] = End(i)})
         IN  SubSeq(d, p + 1, q - 1)

SlotOf(d, i) == [pair |-> HasPair(d, i), inner |-> Inner(d, i)]

\* The marker pair of slot i encloses a card.
HoldsCard(d, i) ==
    HasPair(d, i) /\ \E c \in 1..Len(Inner(d, i)) : IsCard(Inner(d, i)[c])

\* inner is exactly one card on a line of its own, the card of the i-th
\* ranked repository.
CardFor(inner, i) ==
    /\ Len(inner) = 3
    /\ inner[1] = NL
    /\ inner[3] = NL
    /\ IsCard(inner[2])
    /\ inner[2].repo = ranked[i].name
    /\ inner[2].url = ranked[i].html_url

\* The slot numbers documents and lists may use.
SlotIds == 1..(IF MaxDocSlot > 7 THEN MaxDocSlot ELSE 7)

Usable(i) == ranked[i].name # 0 /\ ranked[i].html_url # 0

Markers(d) == SelectSeq(d, IsMarker)

\* d without the tokens between a begin marker and a later end marker of
\* the same slot.
RECURSIVE OutsideFrom(_, _)
OutsideFrom(d, r) ==
    IF r > Len(d) THEN <<>>
    ELSE (IF \E p \in 1..r - 1, q \in r + 1..Len(d) :
                 d[p].k = "start" /\ d[q].k = "end" /\ d[p].i = d[q].i
          THEN <<>> ELSE <<d[r]>>) \o OutsideFrom(d, r + 1)

Outside(d) == OutsideFrom(d, 1)

\* new is old but for the content of slots, each either as it was or one
\* card on a line of its own for the repository of that rank.
Framed(old, new) ==
    /\ Markers(new) = Markers(old)
    /\ Outside(new) = Outside(old)
    /\ \A i \in SlotIds :
           \/ SlotOf(new, i) = SlotOf(old, i)
           \/ i \in Visited /\ HasPair(new, i) /\ CardFor(Inner(new, i), i)

Cards(d) == {d[p] : p \in {x \in 1..Len(d) : IsCard(d[x])}}

\* C10: every card a call writes names the owner login of the first ranked
\* repository, and a first repository without a usable login makes the call
\* return false with every file as it was.
OwnerFromFirst ==
    (Returned /\ ranked # <<>>) =>
        /\ \A f \in {"readme", "profile"} :
               \A c \in Cards(files[f].text) \ Cards(before[f].text) :
                   /\ ranked[1].login \notin {"", AbsentLogin, "YOUR_USERNAME"}
                   /\ c.user = ranked[1].login
        /\ ranked[1].login \in {"", AbsentLogin, "YOUR_USERNAME"} =>
               ret = FALSE /\ files = before

\* The first repository has no owner login, the second is usable, the file
\* selected holds cards in the slots 1 and 2: nothing was written.
OwnerFromFirstWitness ==
    /\ Returned
    /\ Len(ranked) = 2
    /\ ranked[1].login = AbsentLogin
    /\ Usable(1) /\ Usable(2)
    /\ LastTarget = "readme"
    /\ HoldsCard(OldText, 1)
    /\ HoldsCard(OldText, 2)
    /\ NoOverlap(OldText)

\* A file the claim counts as holding markers: it exists and one of the six
\* slots has a marker pair the pattern recognizes, one around a card.
Recognizable(f) == f.exists /\ \E i \in 1..6 : HoldsCard(f.text, i)

\* The file the claim has update_readme patch.
ClaimedTarget(fs) ==
    IF Recognizable(fs.readme) THEN "readme"
    ELSE IF Recognizable(fs.profile) THEN "profile"
    ELSE ""

\* f has a slot whose card the list would change.
Stale(f) ==
    \E i \in Visited :
        Usable(i) /\ HoldsCard(f.text, i) /\ ~CardFor(Inner(f.text, i), i)

\* C7: the file patched is README.md if it holds a marker pair of any slot,
\* else profile.md if that holds one; no other file changes, and the call
\* writes the file whenever it has a slot to bring up to date.
FileChosenAsClaimed ==
    (Returned /\ ranked # <<>> /\ ~InvalidUser(LoginOf(ranked[1]))) =>
        LET c == ClaimedTarget(before)
        IN  /\ \A f \in {"readme", "profile"} : files[f] # before[f] => f = c
            /\ (c # "" /\ Stale(before[c])) => (ret /\ files[c] # before[c])

---------------------------------------------------------------------------
(* Claims about the script *)

\* C9: the process exits 0 exactly when update_readme wrote a changed
\* document and 1 otherwise; without a write the files are as they were;
\* and without an account it exits 1 with no page requested and
\* update_readme never called.
ExitCodeTellsWrite ==
    /\ pc # "exit" => exitCode = -1
    /\ pc = "exit" =>
           /\ exitCode \in {0, 1}
           /\ exitCode = 0 <=> (io = "written" /\ files # before)
           /\ io = "none" => files = before
           /\ username = "" =>
                  /\ exitCode = 1
                  /\ requested = <<>>
                  /\ calls = 0
                  /\ files = before

\* A run that ended with exit status 0 after rewriting README.md.
ExitCodeTellsWriteWitness ==
    /\ pc = "exit"
    /\ exitCode = 0
    /\ targets = <<"readme">>
    /\ files.readme # before.readme
    /\ Len(requested) = 2

====
